---- MODULE Spec2Model ----
(***************************************************************************)
(* Model of the IVR-AI middleware: the session store                       *)
(* (src/session_manager.py), the data it keeps (src/models.py), the mock   *)
(* policy engine (src/ai_connector.py) and the webhook handlers that call  *)
(* them (src/main.py).                                                     *)
(*                                                                         *)
(* Python values are modelled as follows.                                  *)
(*   Optional[T]   None is the empty sequence, a present value v is <<v>>  *)
(*   dict          a function whose DOMAIN is the set of keys              *)
(*   list          a sequence                                              *)
(*   datetime      a natural number read from the clock variable now       *)
(*   timedelta     an integer difference of two clock readings             *)
(* SessionManager.sessions is the only container that refers to a        *)
(* CallSession: once end_session has deleted an object from it no later    *)
(* call of the store can reach that object.  The variable ended holds the  *)
(* objects that the call made in the last step deleted, as that call left  *)
(* them; ret holds what that call was given and what it returned.          *)
(***************************************************************************)
EXTENDS Integers, Sequences, FiniteSets, TLC

VARIABLES
    sessions,         \* SessionManager.sessions: call_id -> CallSession
    ended,            \* the CallSession objects the last call deleted from the dict
    now,              \* the wall clock read by datetime.now()
    session_timeout,  \* SessionManager.session_timeout
    ret,              \* the most recent call: operation, arguments, return value
    ai_service,       \* AIConnector.ai_service
    tasks             \* the webhook deliveries the server has accepted, in arrival order

vars == <<sessions, ended, now, session_timeout, ret, ai_service, tasks>>

----------------------------------------------------------------------------
(* Bounds of the model *)

MaxTime == 2        \* the clock stops advancing here
Timeout == 1        \* the session_timeout the store is constructed with
MaxWrites == 2      \* turns and set fields the stored sessions hold together

(* Inputs *)

CallIds == {"c1", "c2"}
Incoming == {<<"c1", "n1">>, <<"c1", "n2">>, <<"c2", "n2">>}   \* (call_id, caller_number)
Speakers == {"user", "ai"}
Messages == {"hello"}

----------------------------------------------------------------------------
(* Python values *)

None == <<>>

Some(x) == <<x>>

EmptyDict == [k \in {} |-> ""]

DictUpdate(d, u) ==
    [k \in (DOMAIN d) \cup (DOMAIN u) |-> IF k \in DOMAIN u THEN u[k] ELSE d[k]]

DictDel(d, key) == [k \in (DOMAIN d) \ {key} |-> d[k]]

(* models.py *)

InputType == {"speech", "dtmf", "text"}

CallStatus == {"active", "completed", "failed", "transferred"}

InputTypes == {None}

LastN == {None, Some(1)}

ContextUpdates == {[ai_event |-> "e1"]}

Intents == {"book_flight"}

BookingUpdates == {[origin |-> "Mumbai"]}

Interaction(timestamp, speaker, message, input_type) ==
    [timestamp |-> timestamp, speaker |-> speaker, message |-> message,
     input_type |-> input_type]

CallSession(call_id, caller_number, start_time) ==
    [call_id |-> call_id,
     caller_number |-> caller_number,
     start_time |-> start_time,
     end_time |-> None,
     status |-> "active",
     interactions |-> <<>>,
     context |-> EmptyDict,
     current_intent |-> None,
     booking_data |-> None,
     customer_id |-> None]

----------------------------------------------------------------------------
(* session_manager.py: each method is an operator from the store before    *)
(* the call to the store after it and the value returned.                  *)

Store(S, E) == [sessions |-> S, ended |-> E]

Result(st, value) == [st |-> st, value |-> value]

Written(session) ==
    Len(session.interactions)
    + (IF session.context = EmptyDict THEN 0 ELSE 1)
    + (IF session.current_intent = None THEN 0 ELSE 1)
    + (IF session.booking_data = None THEN 0 ELSE 1)

RECURSIVE Sum(_, _)
Sum(S, ids) ==
    IF ids = {} THEN 0
    ELSE LET c == CHOOSE x \in ids : TRUE IN Written(S[c]) + Sum(S, ids \ {c})

Writes(st) == Sum(st.sessions, DOMAIN st.sessions)

(* _is_session_expired with a start that never counts as activity *)
is_session_expired_ignoring_start(session) ==
    IF session.interactions = <<>>
    THEN FALSE
    ELSE now - session.interactions[Len(session.interactions)].timestamp > session_timeout

(* _is_session_expired with >= in place of > *)
is_session_expired_inclusive(session) ==
    LET time_diff ==
            IF session.interactions = <<>>
            THEN now - session.start_time
            ELSE now - session.interactions[Len(session.interactions)].timestamp
    IN  time_diff >= session_timeout

is_session_expired(session) ==
    LET time_diff ==
            IF session.interactions = <<>>
            THEN now - session.start_time
            ELSE now - session.interactions[Len(session.interactions)].timestamp
    IN  time_diff > session_timeout

(* end_session without the del of line 222 *)
end_session_keep(st, call_id, status) ==
    IF call_id \notin DOMAIN st.sessions
    THEN Result(st, FALSE)
    ELSE LET session == [st.sessions[call_id] EXCEPT !.end_time = Some(now),
                                                      !.status = status]
         IN  Result(Store([st.sessions EXCEPT ![call_id] = session], st.ended), TRUE)

end_session_default_status == "completed"

end_session(st, call_id, status) ==
    IF call_id \notin DOMAIN st.sessions
    THEN Result(st, FALSE)
    ELSE LET session == [st.sessions[call_id] EXCEPT !.end_time = Some(now),
                                                      !.status = status]
         IN  Result(Store(DictDel(st.sessions, call_id), st.ended \cup {session}),
                    TRUE)

(* create_session without the membership test of lines 37-39 *)
create_session_overwrite(st, call_id, caller_number) ==
    LET session == CallSession(call_id, caller_number, now)
    IN  Result(Store(DictUpdate(st.sessions, [k \in {call_id} |-> session]), st.ended),
               session)

create_session(st, call_id, caller_number) ==
    IF call_id \in DOMAIN st.sessions
    THEN Result(st, st.sessions[call_id])
    ELSE LET session == CallSession(call_id, caller_number, now)
         IN  Result(Store(DictUpdate(st.sessions, [k \in {call_id} |-> session]),
                          st.ended),
                    session)

(* get_session that marks an expired session ended and leaves it in the dict *)
get_session_mark_only(st, call_id) ==
    IF call_id \in DOMAIN st.sessions
    THEN IF is_session_expired(st.sessions[call_id])
         THEN Result(Store([st.sessions EXCEPT ![call_id].end_time = Some(now),
                                               ![call_id].status = "completed"],
                           st.ended),
                     None)
         ELSE Result(st, Some(st.sessions[call_id]))
    ELSE Result(st, None)

get_session(st, call_id) ==
    IF call_id \in DOMAIN st.sessions
    THEN IF is_session_expired(st.sessions[call_id])
         THEN Result(end_session(st, call_id, end_session_default_status).st, None)
         ELSE Result(st, Some(st.sessions[call_id]))
    ELSE Result(st, None)

SetSession(st, session) ==
    Store([st.sessions EXCEPT ![session.call_id] = session], st.ended)

update_session(st, call_id, updates) ==
    LET g == get_session(st, call_id)
    IN  IF g.value = None
        THEN Result(g.st, FALSE)
        ELSE LET session == g.value[1]
             IN  Result(SetSession(g.st, [session EXCEPT
                            !.context = DictUpdate(session.context, updates)]),
                        TRUE)

(* add_interaction that inserts the turn at the head of the list *)
add_interaction_prepend(st, call_id, speaker, message, input_type) ==
    LET g == get_session(st, call_id)
    IN  IF g.value = None
        THEN Result(g.st, FALSE)
        ELSE LET session == g.value[1]
                 interaction == Interaction(now, speaker, message, input_type)
             IN  Result(SetSession(g.st, [session EXCEPT
                            !.interactions = <<interaction>> \o session.interactions]),
                        TRUE)

(* add_interaction that reads the dict directly instead of calling get_session *)
add_interaction_unchecked(st, call_id, speaker, message, input_type) ==
    IF call_id \notin DOMAIN st.sessions
    THEN Result(st, FALSE)
    ELSE LET session == st.sessions[call_id]
             interaction == Interaction(now, speaker, message, input_type)
         IN  Result(SetSession(st, [session EXCEPT
                        !.interactions = Append(session.interactions, interaction)]),
                    TRUE)

add_interaction(st, call_id, speaker, message, input_type) ==
    LET g == get_session(st, call_id)
    IN  IF g.value = None
        THEN Result(g.st, FALSE)
        ELSE LET session == g.value[1]
                 interaction == Interaction(now, speaker, message, input_type)
             IN  Result(SetSession(g.st, [session EXCEPT
                            !.interactions = Append(session.interactions, interaction)]),
                        TRUE)

get_conversation_history(st, call_id, last_n) ==
    LET g == get_session(st, call_id)
    IN  IF g.value = None
        THEN Result(g.st, <<>>)
        ELSE LET interactions == g.value[1].interactions
                 n == Len(interactions)
             IN  IF last_n /= None /\ last_n[1] /= 0
                 THEN Result(g.st, SubSeq(interactions,
                                          IF last_n[1] >= n THEN 1 ELSE n - last_n[1] + 1,
                                          n))
                 ELSE Result(g.st, interactions)

(* set_intent that also counts as activity of the session *)
set_intent_touch(st, call_id, intent) ==
    LET g == get_session(st, call_id)
    IN  IF g.value = None
        THEN Result(g.st, FALSE)
        ELSE Result(SetSession(g.st, [g.value[1] EXCEPT !.current_intent = Some(intent),
                                                        !.start_time = now]),
                    TRUE)

set_intent(st, call_id, intent) ==
    LET g == get_session(st, call_id)
    IN  IF g.value = None
        THEN Result(g.st, FALSE)
        ELSE Result(SetSession(g.st, [g.value[1] EXCEPT !.current_intent = Some(intent)]),
                    TRUE)

store_booking_data_replace(st, call_id, booking_data) ==
    LET g == get_session(st, call_id)
    IN  IF g.value = None
        THEN Result(g.st, FALSE)
        ELSE Result(SetSession(g.st, [g.value[1] EXCEPT
                        !.booking_data = Some(booking_data)]),
                    TRUE)

store_booking_data(st, call_id, booking_data) ==
    LET g == get_session(st, call_id)
    IN  IF g.value = None
        THEN Result(g.st, FALSE)
        ELSE LET session == g.value[1]
                 current == IF session.booking_data = None
                               \/ DOMAIN session.booking_data[1] = {}
                            THEN EmptyDict
                            ELSE session.booking_data[1]
             IN  Result(SetSession(g.st, [session EXCEPT
                            !.booking_data = Some(DictUpdate(current, booking_data))]),
                        TRUE)

get_active_session_count(st) == Cardinality(DOMAIN st.sessions)

get_all_sessions(st) ==
    {[call_id |-> st.sessions[c].call_id,
      caller_number |-> st.sessions[c].caller_number,
      start_time |-> st.sessions[c].start_time,
      status |-> st.sessions[c].status,
      interaction_count |-> Len(st.sessions[c].interactions),
      current_intent |-> st.sessions[c].current_intent] : c \in DOMAIN st.sessions}

RECURSIVE EndAll(_, _, _)
EndAll(st, ids, status) ==
    IF ids = {}
    THEN st
    ELSE LET first == CHOOSE c \in ids : TRUE
         IN  EndAll(end_session(st, first, status).st, ids \ {first}, status)

cleanup_expired_sessions_completed(st) ==
    LET expired_ids == {call_id \in DOMAIN st.sessions :
                            is_session_expired(st.sessions[call_id])}
    IN  Result(EndAll(st, expired_ids, end_session_default_status),
               Cardinality(expired_ids))

cleanup_expired_sessions(st) ==
    LET expired_ids == {call_id \in DOMAIN st.sessions :
                            is_session_expired(st.sessions[call_id])}
    IN  Result(EndAll(st, expired_ids, "failed"), Cardinality(expired_ids))

(* get_session_duration that reads the dict directly instead of calling get_session *)
get_session_duration_unchecked(st, call_id) ==
    IF call_id \notin DOMAIN st.sessions
    THEN Result(st, None)
    ELSE LET session == st.sessions[call_id]
             end == IF session.end_time /= None THEN session.end_time[1] ELSE now
         IN  Result(st, Some(end - session.start_time))

get_session_duration(st, call_id) ==
    LET g == get_session(st, call_id)
    IN  IF g.value = None
        THEN Result(g.st, None)
        ELSE LET session == g.value[1]
                 end == IF session.end_time /= None THEN session.end_time[1] ELSE now
             IN  Result(g.st, Some(end - session.start_time))

----------------------------------------------------------------------------
(* The state machine: one action per call of a SessionManager method.      *)

Current == Store(sessions, {})

Call(op, call_id, args, r) ==
    /\ sessions' = r.st.sessions
    /\ ended' = r.st.ended
    /\ ret' = [op |-> op, call_id |-> call_id, args |-> args, value |-> r.value]

NoCall == [op |-> "none", call_id |-> "", args |-> <<>>, value |-> None]

Init ==
    /\ sessions = EmptyDict
    /\ ended = {}
    /\ now = 0
    /\ session_timeout = Timeout
    /\ ret = NoCall
    /\ ai_service = "mock"
    /\ tasks = <<>>

CreateSession(call_id, caller_number) ==
    /\ Call("create_session", call_id, <<caller_number>>,
            create_session(Current, call_id, caller_number))
    /\ UNCHANGED <<now, session_timeout, ai_service, tasks>>

GetSession(call_id) ==
    /\ Call("get_session", call_id, <<>>, get_session(Current, call_id))
    /\ UNCHANGED <<now, session_timeout, ai_service, tasks>>

UpdateSession(call_id, updates) ==
    /\ Writes(Current) < MaxWrites
    /\ Call("update_session", call_id, <<updates>>,
            update_session(Current, call_id, updates))
    /\ UNCHANGED <<now, session_timeout, ai_service, tasks>>

AddInteraction(call_id, speaker, message, input_type) ==
    /\ Writes(Current) < MaxWrites
    /\ Call("add_interaction", call_id, <<speaker, message, input_type>>,
            add_interaction(Current, call_id, speaker, message, input_type))
    /\ UNCHANGED <<now, session_timeout, ai_service, tasks>>

GetConversationHistory(call_id, last_n) ==
    /\ Call("get_conversation_history", call_id, <<last_n>>,
            get_conversation_history(Current, call_id, last_n))
    /\ UNCHANGED <<now, session_timeout, ai_service, tasks>>

SetIntent(call_id, intent) ==
    /\ Writes(Current) < MaxWrites
    /\ Call("set_intent", call_id, <<intent>>, set_intent(Current, call_id, intent))
    /\ UNCHANGED <<now, session_timeout, ai_service, tasks>>

StoreBookingData(call_id, booking_data) ==
    /\ Writes(Current) < MaxWrites
    /\ Call("store_booking_data", call_id, <<booking_data>>,
            store_booking_data(Current, call_id, booking_data))
    /\ UNCHANGED <<now, session_timeout, ai_service, tasks>>

EndSession(call_id, status) ==
    /\ Call("end_session", call_id, <<status>>, end_session(Current, call_id, status))
    /\ UNCHANGED <<now, session_timeout, ai_service, tasks>>

CleanupExpiredSessions ==
    /\ Call("cleanup_expired_sessions", "", <<>>, cleanup_expired_sessions(Current))
    /\ UNCHANGED <<now, session_timeout, ai_service, tasks>>

GetSessionDuration(call_id) ==
    /\ Call("get_session_duration", call_id, <<>>, get_session_duration(Current, call_id))
    /\ UNCHANGED <<now, session_timeout, ai_service, tasks>>

Tick ==
    /\ now < MaxTime
    /\ now' = now + 1
    /\ ret' = NoCall
    /\ ended' = {}
    /\ UNCHANGED <<sessions, session_timeout, ai_service, tasks>>

(* The calls that create, look up, write and end sessions. *)
Next ==
    \/ \E i \in Incoming : CreateSession(i[1], i[2])
    \/ \E c \in CallIds : GetSession(c)
    \/ \E c \in CallIds, u \in ContextUpdates : UpdateSession(c, u)
    \/ \E c \in CallIds, s \in Speakers, m \in Messages, k \in InputTypes :
            AddInteraction(c, s, m, k)
    \/ \E c \in CallIds, i \in Intents : SetIntent(c, i)
    \/ \E c \in CallIds, b \in BookingUpdates : StoreBookingData(c, b)
    \/ \E c \in CallIds, s \in CallStatus : EndSession(c, s)
    \/ CleanupExpiredSessions
    \/ Tick

Spec == Init /\ [][Next]_vars

(* The same with the two queries that go through get_session. *)
NextAll ==
    \/ Next
    \/ \E c \in CallIds, n \in LastN : GetConversationHistory(c, n)
    \/ \E c \in CallIds : GetSessionDuration(c)

SpecAll == Init /\ [][NextAll]_vars

----------------------------------------------------------------------------
(* Properties of the session store.                                        *)

Stored == DOMAIN sessions

Expired(c) == c \in Stored /\ is_session_expired(sessions[c])

LastActivityTime(session) ==
    IF Len(session.interactions) = 0
    THEN session.start_time
    ELSE session.interactions[Len(session.interactions)].timestamp

Listed(st) == {summary.call_id : summary \in get_all_sessions(st)}

Turn(interaction) == <<interaction.speaker, interaction.message>>

Mutators(st, c) ==
    {update_session(st, c, u) : u \in ContextUpdates}
    \cup {add_interaction(st, c, sp, m, k) : sp \in Speakers, m \in Messages, k \in InputTypes}
    \cup {set_intent(st, c, i) : i \in Intents}
    \cup {store_booking_data(st, c, b) : b \in BookingUpdates}

MutatorNames == {"update_session", "add_interaction", "set_intent", "store_booking_data"}

(* C1: create_session for a call_id that is stored returns the stored      *)
(* session as it is (start_time, caller_number, interactions, context,     *)
(* current_intent, booking_data), whatever caller_number it is given, and  *)
(* leaves the store as it was.                                             *)
C1_CreateExistingIsIdempotent ==
    \A c \in Stored : \A n \in {i[2] : i \in Incoming} :
        LET r == create_session(Current, c, n)
        IN  /\ r.value = sessions[c]
            /\ r.st = Current

C1_Witness ==
    /\ ret.op = "create_session"
    /\ ret.call_id \in Stored
    /\ ret.value = sessions[ret.call_id]
    /\ ret.value.caller_number /= ret.args[1]
    /\ ret.value.start_time < now
    /\ ret.value.interactions /= <<>>

(* C2: the interactions of a stored session grow only by a successful      *)
(* add_interaction for its call_id, which appends exactly the turn it was  *)
(* given; every other step leaves them as they are, a session starts with  *)
(* none, and a session that is removed keeps the turns it had.  So the     *)
(* list is the successful calls in call order.                             *)
C2_Step ==
    /\ \A c \in Stored \cap DOMAIN sessions' :
            LET old == sessions[c].interactions
                new == sessions'[c].interactions
            IN  IF ret'.op = "add_interaction" /\ ret'.call_id = c /\ ret'.value
                THEN /\ Len(new) = Len(old) + 1
                     /\ SubSeq(new, 1, Len(old)) = old
                     /\ Turn(new[Len(new)]) = <<ret'.args[1], ret'.args[2]>>
                ELSE new = old
    /\ \A c \in Stored \ DOMAIN sessions' :
            \E o \in ended' : o.call_id = c /\ o.interactions = sessions[c].interactions
    /\ \A c \in DOMAIN sessions' \ Stored : sessions'[c].interactions = <<>>
    /\ (ret'.op = "add_interaction" /\ ret'.value) =>
            ret'.call_id \in Stored \cap DOMAIN sessions'

C2_InteractionsAppendOnly == [][C2_Step]_vars

C2_Witness ==
    /\ ret.op = "add_interaction"
    /\ ret.value
    /\ Len(sessions[ret.call_id].interactions) = 2
    /\ sessions[ret.call_id].interactions[1].speaker = "user"
    /\ sessions[ret.call_id].interactions[2].speaker = "ai"

(* C3: a get_session that finds the stored session expired removes it from *)
(* the store with end_time set and status failed, and returns None.        *)
C3_ExpiredLookupEndsFailed ==
    \A c \in CallIds : Expired(c) =>
        LET r == get_session(Current, c)
        IN  /\ r.value = None
            /\ c \notin DOMAIN r.st.sessions
            /\ \E o \in r.st.ended :
                    o.call_id = c /\ o.end_time /= None /\ o.status = "failed"

(* C4: cleanup_expired_sessions and a get_session on every stored call_id  *)
(* leave the same store: the same sessions stored, the same sessions       *)
(* removed, each with the same status and end_time.                        *)
RECURSIVE LazyCheck(_, _)
LazyCheck(st, ids) ==
    IF ids = {}
    THEN st
    ELSE LET c == CHOOSE x \in ids : TRUE
         IN  LazyCheck(get_session(st, c).st, ids \ {c})

C4_SweepEqualsLazyCheck ==
    cleanup_expired_sessions(Current).st = LazyCheck(Current, Stored)

(* C5: get_session for a session that has no interactions and started more *)
(* than session_timeout ago returns None, and after it the call_id is not  *)
(* in get_all_sessions and is not counted by get_active_session_count.     *)
C5_IdleFromStartIsNotFound ==
    \A c \in Stored :
        (sessions[c].interactions = <<>> /\ now - sessions[c].start_time > session_timeout)
        => LET r == get_session(Current, c)
           IN  /\ r.value = None
               /\ c \notin Listed(r.st)
               /\ get_active_session_count(r.st) = get_active_session_count(Current) - 1

C5_Witness ==
    /\ ret.op = "get_session"
    /\ ret.value = None
    /\ ret.call_id \notin Listed(Current)
    /\ \E o \in ended :
            /\ o.call_id = ret.call_id
            /\ o.interactions = <<>>
            /\ now - o.start_time > session_timeout
    /\ Stored /= {}

(* C6: a session is expired exactly when now - lastActivityTime is greater *)
(* than session_timeout, lastActivityTime being the timestamp of its last  *)
(* interaction or, without interactions, its start_time; at equality it is *)
(* not expired.                                                            *)
C6_ExpiredIffIdleLongerThanTimeout ==
    \A c \in Stored :
        /\ is_session_expired(sessions[c])
              <=> (now - LastActivityTime(sessions[c]) > session_timeout)
        /\ (now - LastActivityTime(sessions[c]) = session_timeout)
              => get_session(Current, c).value = Some(sessions[c])

C6_Witness ==
    \E c, d \in Stored :
        /\ sessions[c].interactions /= <<>>
        /\ now - sessions[c].start_time > session_timeout
        /\ now - LastActivityTime(sessions[c]) = session_timeout
        /\ now - LastActivityTime(sessions[d]) > session_timeout

(* C7: after end_session returned True the call_id is not stored: a        *)
(* get_session for it returns None, get_all_sessions does not list it and  *)
(* an end_session for it returns False and changes nothing; it stays so    *)
(* until a create_session for that call_id.                                *)
C7_Gone(c) ==
    /\ get_session(Current, c) = Result(Current, None)
    /\ c \notin Listed(Current)
    /\ \A s \in CallStatus : end_session(Current, c, s) = Result(Current, FALSE)

C7_State ==
    /\ (ret.op = "end_session" /\ ret.value) => ret.call_id \notin Stored
    /\ \A c \in CallIds \ Stored : C7_Gone(c)

C7_Step ==
    \A c \in DOMAIN sessions' \ Stored : ret'.op = "create_session" /\ ret'.call_id = c

C7_EndedIsGoneUntilCreated == []C7_State /\ [][C7_Step]_vars

C7_Witness ==
    /\ ret.op = "end_session"
    /\ ret.value
    /\ ret.call_id \notin Stored
    /\ \E o \in ended : o.call_id = ret.call_id /\ o.interactions /= <<>>
    /\ Stored /= {}

(* C8: end_time is set exactly when status is not active, for the stored   *)
(* sessions and for the sessions a call has removed.                       *)
C8_EndTimeIffNotActive ==
    \A o \in {sessions[c] : c \in Stored} \cup ended :
        (o.end_time /= None) <=> (o.status /= "active")

(* C9: every stored session has status active; a stored session keeps its  *)
(* status as long as it is stored; a session whose status or end_time a    *)
(* call sets was stored and active before the call and is not stored after *)
(* it, so no call can reach it a second time.                              *)
C9_State == \A c \in Stored : sessions[c].status = "active" /\ sessions[c].end_time = None

C9_Step ==
    /\ \A c \in Stored \cap DOMAIN sessions' :
            /\ sessions'[c].status = sessions[c].status
            /\ sessions'[c].end_time = sessions[c].end_time
    /\ \A o \in ended' :
            /\ o.call_id \in Stored
            /\ o.call_id \notin DOMAIN sessions'
            /\ sessions[o.call_id].status = "active"
    /\ \A c \in Stored \ DOMAIN sessions' : \E o \in ended' : o.call_id = c

C9_TerminalOnceAndRemoved == []C9_State /\ [][C9_Step]_vars

C9_Witness ==
    /\ ret.op = "get_session"
    /\ ret.value = None
    /\ \E o \in ended : o.call_id = ret.call_id /\ o.status /= "active"
    /\ \E c \in Stored : sessions[c].interactions /= <<>>

(* C10: update_session, add_interaction, set_intent and                    *)
(* store_booking_data for a call_id that is not stored, or whose stored    *)
(* session is expired, return False, store no session for it and change no *)
(* other session; an expired session leaves the store with the            *)
(* interactions, context, current_intent and booking_data it had.          *)
C10_MutatorsFailOnMissingOrExpired ==
    \A c \in CallIds : (c \notin Stored \/ Expired(c)) =>
        \A r \in Mutators(Current, c) :
            /\ r.value = FALSE
            /\ DOMAIN r.st.sessions = Stored \ {c}
            /\ \A d \in Stored \ {c} : r.st.sessions[d] = sessions[d]
            /\ IF c \in Stored
               THEN \E o \in r.st.ended :
                        /\ r.st.ended = {o}
                        /\ o.call_id = c
                        /\ o.interactions = sessions[c].interactions
                        /\ o.context = sessions[c].context
                        /\ o.current_intent = sessions[c].current_intent
                        /\ o.booking_data = sessions[c].booking_data
               ELSE r.st.ended = {}

C10_Witness ==
    /\ ret.op \in MutatorNames
    /\ ~ret.value
    /\ \E o \in ended : o.call_id = ret.call_id /\ o.interactions /= <<>>
    /\ Stored /= {}

----------------------------------------------------------------------------
(* main.py: the webhook handlers.  Every delivery the server accepts is a  *)
(* task.  A handler declared async def runs on the one event loop: from    *)
(* one await to the next no other such handler runs.  A handler declared   *)
(* def runs on a thread of the pool, and the interpreter may switch        *)
(* between it and any other thread after every statement.                  *)

MaxDeliveries == 2  \* deliveries the server accepts in one behaviour

TaskIds == 1..MaxDeliveries

(* starlette's Response and PlainTextResponse, and the HTTP response that  *)
(* FastAPI makes of an HTTPException that leaves the handler               *)
Response(content, status_code) == [content |-> content, status_code |-> status_code]

Task(handler, call_id, arg) ==
    [handler |-> handler, call_id |-> call_id, arg |-> arg, pc |-> "accepted",
     session |-> None, expired |-> FALSE, status |-> None, ai_response |-> None,
     result |-> None, value |-> None, raised |-> None, returned |-> None]

Deliver(handler, call_id, arg) ==
    /\ Len(tasks) < MaxDeliveries
    /\ tasks' = Append(tasks, Task(handler, call_id, arg))
    /\ UNCHANGED <<sessions, ended, now, session_timeout, ret, ai_service>>

At(t, handler, pc) ==
    /\ t \in DOMAIN tasks
    /\ tasks[t].handler = handler
    /\ tasks[t].pc = pc

(* POST /twilio/voice and POST /ivr/incoming-call: after the body is read  *)
(* the handler creates the session and returns the welcome document.       *)

IncomingHandlers == {"twilio_incoming_call", "handle_incoming_call"}

twilio_incoming_call(t) ==
    /\ At(t, "twilio_incoming_call", "accepted")
    /\ LET r == create_session(Current, tasks[t].call_id, tasks[t].arg)
       IN  /\ Call("create_session", tasks[t].call_id, <<tasks[t].arg>>, r)
           /\ tasks' = [tasks EXCEPT ![t].session = Some(r.value),
                                     ![t].returned = Response("welcome_twiml", 200),
                                     ![t].pc = "done"]
    /\ UNCHANGED <<now, session_timeout, ai_service>>

handle_incoming_call(t) ==
    /\ At(t, "handle_incoming_call", "accepted")
    /\ LET r == create_session(Current, tasks[t].call_id, tasks[t].arg)
       IN  /\ Call("create_session", tasks[t].call_id, <<tasks[t].arg>>, r)
           /\ tasks' = [tasks EXCEPT ![t].session = Some(r.value),
                                     ![t].returned = Response("welcome_vxml", 200),
                                     ![t].pc = "done"]
    /\ UNCHANGED <<now, session_timeout, ai_service>>

NextCreate ==
    \/ \E h \in IncomingHandlers, i \in Incoming : Deliver(h, i[1], i[2])
    \/ \E t \in TaskIds : twilio_incoming_call(t)
    \/ \E t \in TaskIds : handle_incoming_call(t)
    \/ Tick

SpecCreate == Init /\ [][NextCreate]_vars

(* C11: of the incoming-call deliveries for one call_id, whatever order    *)
(* they run in, one constructs the session and stores it; no later one     *)
(* replaces or changes the stored session, and every delivery that has run *)
(* holds the session that is stored for its call_id.                       *)
C11_State ==
    \A t \in DOMAIN tasks : tasks[t].pc = "done" =>
        /\ tasks[t].call_id \in Stored
        /\ tasks[t].session = Some(sessions[tasks[t].call_id])

C11_Step ==
    /\ \A c \in Stored : c \in DOMAIN sessions' /\ sessions'[c] = sessions[c]
    /\ \A c \in DOMAIN sessions' \ Stored :
            /\ ret'.op = "create_session"
            /\ ret'.call_id = c
            /\ ret'.value = sessions'[c]
            /\ DOMAIN sessions' = Stored \cup {c}

C11_ConcurrentCreateStoresOne == []C11_State /\ [][C11_Step]_vars

C11_Witness ==
    \E t, u \in DOMAIN tasks :
        /\ t < u
        /\ tasks[t].pc = "done"
        /\ tasks[u].pc = "done"
        /\ tasks[t].handler /= tasks[u].handler
        /\ tasks[t].call_id = tasks[u].call_id
        /\ tasks[t].arg /= tasks[u].arg
        /\ sessions[tasks[t].call_id].caller_number = tasks[u].arg
        /\ sessions[tasks[t].call_id].start_time < now
        /\ ret.op = "create_session"
        /\ ret.value = sessions[ret.call_id]

----------------------------------------------------------------------------
(* The handlers that end a session.  DELETE /session/{call_id} and         *)
(* GET /session/{call_id} are declared def and run on pool threads, so     *)
(* the statements of end_session are steps of their own here: another      *)
(* thread may run between any two of them.  A local variable session is a  *)
(* reference: a write through one reference shows in the dict, while the   *)
(* object is stored, and in every other local that refers to the object.   *)

LoopHandlers ==
    {"twilio_incoming_call", "handle_incoming_call", "twilio_gather_input",
     "handle_user_input", "handle_transaction", "twilio_action",
     "twilio_status_callback"}

PoolHandlers == {"main_end_session", "main_get_session"}

TwilioCallStatus == {"completed", "no-answer", "ringing"}

EndRequests ==
    {<<"main_end_session", None>>, <<"main_get_session", None>>, <<"twilio_action", None>>}
    \cup {<<"twilio_status_callback", Some(s)>> : s \in TwilioCallStatus}

InSyncBlock(u) == tasks[u].pc \notin {"accepted", "await_ai", "done"}

(* the event loop runs t: no other coroutine is between two awaits *)
Runs(t) ==
    tasks[t].handler \in LoopHandlers =>
        \A u \in DOMAIN tasks \ {t} : tasks[u].handler \in LoopHandlers => ~InSyncBlock(u)

Finish(task, value, raised, returned) ==
    [task EXCEPT !.pc = "done", !.value = value, !.raised = raised, !.returned = returned]

technical_difficulties == "Sorry, we're experiencing technical difficulties"

generate_error_twiml(error_message) ==
    [document |-> "error_twiml",
     say |-> <<error_message,
               ". Please try again later or press 0 to speak with an agent.">>]

generate_error_vxml(error_message) ==
    [document |-> "error_vxml",
     prompt |-> <<error_message,
                  ". Please try again later or press 0 to speak with an agent.">>]

generate_confirmation_twiml(message, success) ==
    [document |-> "confirmation_twiml",
     say |-> <<message,
               IF success
               THEN "Thank you for calling Air India. Have a great day!"
               ELSE "Would you like to try again or speak to an agent? Say try again or agent.">>]

(* dict.get: None for a key that is not there *)
get(dict, key) == IF key \in DOMAIN dict THEN Some(dict[key]) ELSE None

generate_confirmation_vxml(call_id, transaction_result) ==
    LET success == IF "success" \in DOMAIN transaction_result
                   THEN transaction_result["success"] ELSE FALSE
        message == IF "message" \in DOMAIN transaction_result
                   THEN transaction_result["message"] ELSE "Transaction completed"
    IN  [document |-> "confirmation_vxml",
         prompt |-> IF success
                    THEN <<message, ". Is there anything else I can help you with?">>
                    ELSE <<"Sorry, there was an issue: ", message,
                           ". Would you like to try again?">>]

status_map(call_status) ==
    CASE call_status = "completed" -> "completed"
      [] call_status = "failed" -> "failed"
      [] call_status = "no-answer" -> "failed"

(* The transaction processors: each returns a dict or raises.  data is     *)
(* None where the request had no data.                                     *)

Raised(exception) == [raised |-> Some(exception), value |-> None]

Returned(value) == [raised |-> None, value |-> Some(value)]

FlightBookingRequired ==
    {"origin", "destination", "travel_date", "passenger_name", "passenger_contact",
     "booking_type"}

process_flight_booking(call_id, data) ==
    IF data = None
    THEN Raised("TypeError")
    ELSE IF ~(FlightBookingRequired \subseteq DOMAIN data[1])
    THEN Raised("ValidationError")
    ELSE IF \E k \in {"origin", "destination"} : Len(data[1][k]) < 3 \/ Len(data[1][k]) > 50
    THEN Raised("ValidationError")
    ELSE LET booking == [k \in FlightBookingRequired \cup {"num_passengers"} |->
                            IF k \in DOMAIN data[1] THEN data[1][k] ELSE 1]
         IN  Returned([success |-> TRUE,
                       booking_id |-> <<"BK", now>>,
                       message |-> <<"Booking confirmed from ", booking["origin"],
                                     " to ", booking["destination"]>>,
                       details |-> booking])

flights ==
    [AI1 |-> [status |-> "On Time", origin |-> "Mumbai", destination |-> "Delhi"],
     AI2 |-> [status |-> "Delayed", origin |-> "Chennai", destination |-> "Bangalore"]]

process_status_check_any_id(call_id, data) ==
    IF data = None
    THEN Raised("AttributeError")
    ELSE LET flight_id == get(data[1], "flight_id")
         IN  IF flight_id /= None
             THEN Returned([success |-> TRUE, flight_id |-> flight_id[1]])
             ELSE Returned([success |-> FALSE, message |-> "Flight not found"])

process_status_check(call_id, data) ==
    IF data = None
    THEN Raised("AttributeError")
    ELSE LET flight_id == get(data[1], "flight_id")
         IN  IF flight_id /= None /\ flight_id[1] \in DOMAIN flights
             THEN Returned(DictUpdate([success |-> TRUE, flight_id |-> flight_id[1]],
                                      flights[flight_id[1]]))
             ELSE Returned([success |-> FALSE, message |-> "Flight not found"])

(* booking_id is what data.get returned: None or the id *)
process_cancellation(call_id, data) ==
    IF data = None
    THEN Raised("AttributeError")
    ELSE Returned([success |-> TRUE,
                   booking_id |-> get(data[1], "booking_id"),
                   message |-> "Booking cancelled successfully"])

(* what the handler answers once end_session has returned or raised; for   *)
(* twilio_action the end_session of an expired lookup is followed by the   *)
(* answer for a missing session, the end_session of line 204 by the        *)
(* confirmation that line 201 made                                         *)
EndResponse(task, raised) ==
    CASE task.handler = "main_end_session" ->
            IF raised = None
            THEN Response("session ended", 200)
            ELSE Response("Internal server error", 500)
      [] task.handler = "main_get_session" ->
            IF raised = None
            THEN Response("Session not found", 404)
            ELSE Response("Internal server error", 500)
      [] task.handler = "twilio_action" ->
            IF raised /= None
            THEN Response(generate_error_twiml(technical_difficulties), 200)
            ELSE IF task.expired
            THEN Response(generate_error_twiml("Session expired"), 200)
            ELSE IF task.result = None
            THEN Response(generate_confirmation_twiml(
                            "Thank you for using Air India customer support.", TRUE), 200)
            ELSE Response(generate_confirmation_twiml(task.result[1].message,
                                                      task.result[1].success), 200)
      [] task.handler = "twilio_status_callback" ->
            IF raised = None THEN Response("OK", 200) ELSE Response("ERROR", 200)

(* get_session as far as its return or its call of end_session *)
GetSessionThen(t, found, missing) ==
    LET c == tasks[t].call_id
    IN  IF c \notin DOMAIN sessions
        THEN tasks' = [tasks EXCEPT ![t] = Finish(@, None, None, missing)]
        ELSE IF is_session_expired(sessions[c])
             THEN tasks' = [tasks EXCEPT ![t].pc = "end_lookup",
                                         ![t].expired = TRUE,
                                         ![t].status = Some(end_session_default_status)]
             ELSE tasks' = [tasks EXCEPT ![t] = found]

main_end_session(t) ==
    /\ At(t, "main_end_session", "accepted")
    /\ tasks' = [tasks EXCEPT ![t].pc = "end_lookup",
                              ![t].status = Some(end_session_default_status)]
    /\ UNCHANGED <<sessions, ended, now, session_timeout, ret, ai_service>>

main_get_session(t) ==
    /\ At(t, "main_get_session", "accepted")
    /\ GetSessionThen(t, Finish([tasks[t] EXCEPT !.session = Some(sessions[tasks[t].call_id])],
                                None, None, Response("session", 200)),
                      Response("Session not found", 404))
    /\ UNCHANGED <<sessions, ended, now, session_timeout, ret, ai_service>>

twilio_action(t) ==
    /\ At(t, "twilio_action", "accepted")
    /\ Runs(t)
    /\ LET session == sessions[tasks[t].call_id]
           result == process_flight_booking(tasks[t].call_id, session.booking_data)
           ends == [tasks[t] EXCEPT !.session = Some(session),
                                    !.pc = "end_lookup",
                                    !.status = Some(end_session_default_status)]
       IN  GetSessionThen(t,
               IF /\ session.current_intent = Some("book_flight")
                  /\ session.booking_data /= None
                  /\ DOMAIN session.booking_data[1] /= {}
               THEN IF result.raised /= None
                    THEN Finish([tasks[t] EXCEPT !.session = Some(session)], None,
                                result.raised,
                                Response(generate_error_twiml(technical_difficulties), 200))
                    ELSE [ends EXCEPT !.result = result.value]
               ELSE ends,
               Response(generate_error_twiml("Session expired"), 200))
    /\ UNCHANGED <<sessions, ended, now, session_timeout, ret, ai_service>>

twilio_status_callback(t) ==
    /\ At(t, "twilio_status_callback", "accepted")
    /\ Runs(t)
    /\ IF tasks[t].arg[1] \in {"completed", "failed", "no-answer"}
       THEN GetSessionThen(t, [tasks[t] EXCEPT !.session = Some(sessions[tasks[t].call_id]),
                                               !.pc = "end_lookup",
                                               !.status = Some(status_map(tasks[t].arg[1]))],
                           Response("OK", 200))
       ELSE tasks' = [tasks EXCEPT ![t] = Finish(@, None, None, Response("OK", 200))]
    /\ UNCHANGED <<sessions, ended, now, session_timeout, ret, ai_service>>

(* end_session, line 207 to 209 *)
end_session_lookup(t) ==
    /\ t \in DOMAIN tasks
    /\ tasks[t].pc = "end_lookup"
    /\ Runs(t)
    /\ LET c == tasks[t].call_id
       IN  IF c \notin DOMAIN sessions
           THEN tasks' = [tasks EXCEPT ![t] =
                            Finish(@, Some(FALSE), None, EndResponse(@, None))]
           ELSE tasks' = [tasks EXCEPT ![t].session = Some(sessions[c]),
                                       ![t].pc = "end_write"]
    /\ UNCHANGED <<sessions, ended, now, session_timeout, ret, ai_service>>

(* end_session, lines 211 and 212, through the reference it holds *)
end_session_write(t) ==
    /\ t \in DOMAIN tasks
    /\ tasks[t].pc = "end_write"
    /\ Runs(t)
    /\ LET c == tasks[t].call_id
           Written_(o) == [o EXCEPT !.end_time = Some(now), !.status = tasks[t].status[1]]
       IN  /\ sessions' = [k \in DOMAIN sessions |->
                              IF k = c THEN Written_(sessions[k]) ELSE sessions[k]]
           /\ tasks' = [u \in DOMAIN tasks |->
                          LET task == IF u = t THEN [tasks[u] EXCEPT !.pc = "end_del"]
                                               ELSE tasks[u]
                          IN  IF task.call_id = c /\ task.session /= None
                              THEN [task EXCEPT !.session = Some(Written_(@[1]))]
                              ELSE task]
    /\ ended' = {}
    /\ UNCHANGED <<now, session_timeout, ret, ai_service>>

(* end_session, lines 222 and 223: del raises KeyError for a missing key *)
end_session_del(t) ==
    /\ t \in DOMAIN tasks
    /\ tasks[t].pc = "end_del"
    /\ Runs(t)
    /\ LET c == tasks[t].call_id
       IN  IF c \in DOMAIN sessions
           THEN /\ sessions' = DictDel(sessions, c)
                /\ ended' = {sessions[c]}
                /\ tasks' = [tasks EXCEPT ![t] =
                               Finish(@, Some(TRUE), None, EndResponse(@, None))]
           ELSE /\ tasks' = [tasks EXCEPT ![t] =
                               Finish(@, None, Some("KeyError"),
                                      EndResponse(@, Some("KeyError")))]
                /\ UNCHANGED <<sessions, ended>>
    /\ UNCHANGED <<now, session_timeout, ret, ai_service>>

InitEnd ==
    /\ sessions = [c \in {"c1"} |-> CallSession("c1", "n1", 0)]
    /\ ended = {}
    /\ now = 0
    /\ session_timeout = Timeout
    /\ ret = NoCall
    /\ ai_service = "mock"
    /\ tasks = <<>>

NextEnd ==
    \/ \E q \in EndRequests, c \in CallIds : Deliver(q[1], c, q[2])
    \/ \E t \in TaskIds : main_end_session(t)
    \/ \E t \in TaskIds : main_get_session(t)
    \/ \E t \in TaskIds : twilio_action(t)
    \/ \E t \in TaskIds : twilio_status_callback(t)
    \/ \E t \in TaskIds : end_session_lookup(t)
    \/ \E t \in TaskIds : end_session_write(t)
    \/ \E t \in TaskIds : end_session_del(t)
    \/ Tick

SpecEnd == InitEnd /\ [][NextEnd]_vars

(* C12: of the handlers that end one call_id, whatever order their steps   *)
(* run in, at most one writes end_time and status, at most one gets True   *)
(* from end_session, none gets a KeyError, and once the session has left   *)
(* the dict exactly one has got True.                                      *)
Enders(c) == {t \in DOMAIN tasks : tasks[t].call_id = c}

WroteEnd(c) ==
    {t \in Enders(c) :
        \/ tasks[t].pc = "end_del"
        \/ tasks[t].pc = "done" /\ tasks[t].value = Some(TRUE)
        \/ tasks[t].pc = "done" /\ tasks[t].raised = Some("KeyError")}

GotTrue(c) == {t \in Enders(c) : tasks[t].pc = "done" /\ tasks[t].value = Some(TRUE)}

C12_ConcurrentEndOnce ==
    \A c \in CallIds :
        /\ \A t \in Enders(c) : tasks[t].raised /= Some("KeyError")
        /\ Cardinality(WroteEnd(c)) <= 1
        /\ Cardinality(GotTrue(c)) <= 1
        /\ (c = "c1" /\ c \notin Stored) => Cardinality(GotTrue(c)) = 1

----------------------------------------------------------------------------
(* ai_connector.py.  A str that the code examines by its characters (the   *)
(* caller's utterance, a keyword) is the sequence of its characters; a     *)
(* message is the sequence of the parts its template is made of.           *)

UpperCase ==
    <<"A", "B", "C", "D", "E", "F", "G", "H", "I", "J", "K", "L", "M",
      "N", "O", "P", "Q", "R", "S", "T", "U", "V", "W", "X", "Y", "Z">>

LowerCase ==
    <<"a", "b", "c", "d", "e", "f", "g", "h", "i", "j", "k", "l", "m",
      "n", "o", "p", "q", "r", "s", "t", "u", "v", "w", "x", "y", "z">>

lower(str) ==
    [i \in 1..Len(str) |->
        IF \E k \in DOMAIN UpperCase : UpperCase[k] = str[i]
        THEN LowerCase[CHOOSE k \in DOMAIN UpperCase : UpperCase[k] = str[i]]
        ELSE str[i]]

(* word in str *)
contains(str, word) ==
    \E i \in 0..(Len(str) - Len(word)) : SubSeq(str, i + 1, i + Len(word)) = word

any_word_in(words, str) == \E word \in words : contains(str, word)

booking_words ==
    {<<"b", "o", "o", "k">>,
     <<"b", "o", "o", "k", "i", "n", "g">>,
     <<"r", "e", "s", "e", "r", "v", "e">>,
     <<"t", "i", "c", "k", "e", "t">>}

status_words ==
    {<<"s", "t", "a", "t", "u", "s">>,
     <<"c", "h", "e", "c", "k">>,
     <<"f", "l", "i", "g", "h", "t", " ", "s", "t", "a", "t", "u", "s">>}

cancel_words ==
    {<<"c", "a", "n", "c", "e", "l">>,
     <<"c", "a", "n", "c", "e", "l", "l", "a", "t", "i", "o", "n">>}

domestic_words == {<<"d", "o", "m", "e", "s", "t", "i", "c">>}

international_words == 
    {<<"i", "n", "t", "e", "r", "n", "a", "t", "i", "o", "n", "a", "l">>}

agent_words ==
    {<<"a", "g", "e", "n", "t">>,
     <<"r", "e", "p", "r", "e", "s", "e", "n", "t", "a", "t", "i", "v", "e">>,
     <<"h", "u", "m", "a", "n">>}

SetItem(dict, key, value) ==
    [k \in DOMAIN dict \cup {key} |-> IF k = key THEN value ELSE dict[k]]

Locals(intent, message, action) ==
    [intent |-> intent, message |-> message, action |-> action]

mock_confidence == 85   \* 0.85, in hundredths

(* the keyword tests with the status test first *)
keyword_branch_status_first(user_input_lower) ==
    IF any_word_in(status_words, user_input_lower)
    THEN Some(Locals(Some("check_status"),
              <<"I can check your flight status. Please provide your flight number.">>,
              Some("collect_flight_id")))
    ELSE IF any_word_in(booking_words, user_input_lower)
    THEN Some(Locals(Some("book_flight"),
              <<"I can help you book a flight. Are you looking for a domestic or international flight?">>,
              Some("collect_booking_type")))
    ELSE IF any_word_in(cancel_words, user_input_lower)
    THEN Some(Locals(Some("cancel_booking"),
              <<"I can help you cancel your booking. Please provide your booking ID.">>,
              Some("collect_booking_id")))
    ELSE IF any_word_in(domestic_words, user_input_lower)
    THEN Some(Locals(Some("domestic_flight"),
              <<"Great! Where would you like to fly from?">>,
              Some("collect_origin")))
    ELSE IF any_word_in(international_words, user_input_lower)
    THEN Some(Locals(Some("international_flight"),
              <<"Perfect! Which city will you be departing from?">>,
              Some("collect_origin")))
    ELSE IF any_word_in(agent_words, user_input_lower)
    THEN Some(Locals(Some("speak_to_agent"),
              <<"I'll connect you with an agent. Please hold.">>,
              Some("transfer_agent")))
    ELSE None

(* lines 76 to 104: the locals a keyword branch assigns, None when no      *)
(* keyword is found                                                        *)
keyword_branch(user_input_lower) ==
    IF any_word_in(booking_words, user_input_lower)
    THEN Some(Locals(Some("book_flight"),
              <<"I can help you book a flight. Are you looking for a domestic or international flight?">>,
              Some("collect_booking_type")))
    ELSE IF any_word_in(status_words, user_input_lower)
    THEN Some(Locals(Some("check_status"),
              <<"I can check your flight status. Please provide your flight number.">>,
              Some("collect_flight_id")))
    ELSE IF any_word_in(cancel_words, user_input_lower)
    THEN Some(Locals(Some("cancel_booking"),
              <<"I can help you cancel your booking. Please provide your booking ID.">>,
              Some("collect_booking_id")))
    ELSE IF any_word_in(domestic_words, user_input_lower)
    THEN Some(Locals(Some("domestic_flight"),
              <<"Great! Where would you like to fly from?">>,
              Some("collect_origin")))
    ELSE IF any_word_in(international_words, user_input_lower)
    THEN Some(Locals(Some("international_flight"),
              <<"Perfect! Which city will you be departing from?">>,
              Some("collect_origin")))
    ELSE IF any_word_in(agent_words, user_input_lower)
    THEN Some(Locals(Some("speak_to_agent"),
              <<"I'll connect you with an agent. Please hold.">>,
              Some("transfer_agent")))
    ELSE None

(* lines 107 to 145: the booking_data the branch leaves and the locals it  *)
(* assigns; intent is None where the branch assigns none                   *)
context_branch(user_input, session_context) ==
    LET current_intent == session_context.current_intent
        Left(booking_data, locals) == [booking_data |-> booking_data, locals |-> locals]
    IN  IF /\ current_intent = Some("book_flight")
           /\ session_context.booking_data /= None
           /\ DOMAIN session_context.booking_data[1] /= {}
        THEN LET booking == session_context.booking_data[1]
             IN  IF "origin" \notin DOMAIN booking
                 THEN Left(Some(SetItem(booking, "origin", user_input)),
                           Locals(None, <<"Great! And where would you like to fly to?">>,
                                  Some("collect_destination")))
                 ELSE IF "destination" \notin DOMAIN booking
                 THEN Left(Some(SetItem(booking, "destination", user_input)),
                           Locals(None,
                                  <<"When would you like to travel? Please provide the date.">>,
                                  Some("collect_date")))
                 ELSE IF "date" \notin DOMAIN booking
                 THEN Left(Some(SetItem(booking, "date", user_input)),
                           Locals(None, <<"May I have your full name for the booking?">>,
                                  Some("collect_passenger_name")))
                 ELSE IF "passenger_name" \notin DOMAIN booking
                 THEN Left(Some(SetItem(booking, "passenger_name", user_input)),
                           Locals(None, <<"And your contact number?">>,
                                  Some("collect_contact")))
                 ELSE IF "contact" \notin DOMAIN booking
                 THEN Left(Some(SetItem(booking, "contact", user_input)),
                           Locals(None,
                                  <<"Perfect! Let me confirm: Flying from ", booking["origin"],
                                    " to ", booking["destination"], " on ", booking["date"],
                                    " for ", booking["passenger_name"],
                                    ". Should I proceed with the booking?">>,
                                  Some("confirm_booking")))
                 ELSE Left(session_context.booking_data,
                           Locals(Some("unknown"),
                                  <<"I didn't quite understand. Could you rephrase that?">>,
                                  None))
        ELSE Left(session_context.booking_data,
                  Locals(Some("unknown"),
                         <<"I didn't quite understand. You can say 'book a flight', 'check flight status', or 'cancel booking'.">>,
                         None))

(* the session the call leaves, the exception it raises (None when it      *)
(* returns) and the dict it returns (None when it raises)                  *)
mock_ai_response(user_input, session_context) ==
    LET user_input_lower == lower(user_input)
        keyword == keyword_branch(user_input_lower)
        context == context_branch(user_input, session_context)
        locals == IF keyword /= None THEN keyword[1] ELSE context.locals
        left == IF keyword /= None
                THEN session_context
                ELSE [session_context EXCEPT !.booking_data = context.booking_data]
    IN  IF locals.intent = None
        THEN [session_context |-> left, raised |-> Some("UnboundLocalError"),
              value |-> None]
        ELSE [session_context |-> left, raised |-> None,
              value |-> Some([call_id |-> session_context.call_id,
                              message |-> locals.message,
                              intent |-> locals.intent[1],
                              action |-> locals.action,
                              confidence |-> mock_confidence,
                              parameters |-> EmptyDict])]

error_response(call_id) ==
    [call_id |-> call_id,
     message |-> <<"I'm having trouble processing that. Could you try again?">>,
     intent |-> "error",
     action |-> None,
     confidence |-> 0,
     parameters |-> EmptyDict]

(* what _rasa_request can return once the two posts have completed: the    *)
(* text and intent the server sent, or the error response                  *)
rasa_request_results(call_id) ==
    {error_response(call_id),
     [call_id |-> call_id, message |-> <<"bot_message">>, intent |-> "greet",
      action |-> None, confidence |-> 0, parameters |-> EmptyDict]}

AIServices == {"mock", "rasa"}

----------------------------------------------------------------------------
(* The handlers of a turn: POST /twilio/gather and POST /ivr/user-input.   *)
(* With the mock service process_input returns without giving up the event *)
(* loop; with a remote service the handler is suspended in client.post     *)
(* until the answer arrives, and other handlers run meanwhile.             *)

TurnHandlers == {"twilio_gather_input", "handle_user_input"}

TurnUtterances == {<<"B", "o", "o", "k">>, <<"D", "e", "l", "h", "i">>}

(* lines 131 to 148 and 300 to 315, from the lookup to the await *)
TurnBegin(t, not_found, error, ok) ==
    LET c == tasks[t].call_id
        user_input == tasks[t].arg
        g == get_session(Current, c)
        a == add_interaction(g.st, c, "user", user_input, None)
        session == a.st.sessions[c]
    IN  IF g.value = None
        THEN /\ Call("get_session", c, <<>>, g)
             /\ tasks' = [tasks EXCEPT ![t] =
                            Finish(@, None, not_found.raised, not_found.returned)]
        ELSE IF ai_service /= "mock"
        THEN /\ Call("add_interaction", c, <<"user", user_input, None>>, a)
             /\ tasks' = [tasks EXCEPT ![t].session = Some(session), ![t].pc = "await_ai"]
        ELSE LET r == mock_ai_response(user_input, session)
                 st == SetSession(a.st, r.session_context)
             IN  IF r.raised /= None
                 THEN /\ Call("add_interaction", c, <<"user", user_input, None>>,
                              Result(st, a.value))
                      /\ tasks' = [tasks EXCEPT ![t] =
                                     Finish([@ EXCEPT !.session = Some(r.session_context)],
                                            None, r.raised, error)]
                 ELSE LET b == add_interaction(st, c, "ai", r.value[1].message, None)
                      IN  /\ Call("add_interaction", c,
                                  <<"ai", r.value[1].message, None>>, b)
                          /\ tasks' = [tasks EXCEPT ![t] =
                                         Finish([@ EXCEPT !.session = Some(r.session_context),
                                                          !.ai_response = r.value],
                                                Some(b.value), None, ok)]

(* lines 141 to 161 and 308 to 324, from the answer of the service on *)
TurnResume(t, ai_response, ok) ==
    LET c == tasks[t].call_id
        b == add_interaction(Current, c, "ai", ai_response.message, None)
    IN  /\ Call("add_interaction", c, <<"ai", ai_response.message, None>>, b)
        /\ tasks' = [tasks EXCEPT ![t] =
                       Finish([@ EXCEPT !.ai_response = Some(ai_response)],
                              Some(b.value), None, ok)]

twilio_gather_input(t) ==
    /\ At(t, "twilio_gather_input", "accepted")
    /\ Runs(t)
    /\ TurnBegin(t, [raised |-> None,
                     returned |-> Response(generate_error_twiml("Session expired"), 200)],
                 Response(generate_error_twiml(technical_difficulties), 200),
                 Response("response_twiml", 200))
    /\ UNCHANGED <<now, session_timeout, ai_service>>

twilio_gather_input_resumed(t) ==
    /\ At(t, "twilio_gather_input", "await_ai")
    /\ Runs(t)
    /\ \E ai_response \in rasa_request_results(tasks[t].call_id) :
            TurnResume(t, ai_response, Response("response_twiml", 200))
    /\ UNCHANGED <<now, session_timeout, ai_service>>

handle_user_input(t) ==
    /\ At(t, "handle_user_input", "accepted")
    /\ Runs(t)
    /\ TurnBegin(t, [raised |-> Some("HTTPException"),
                     returned |-> Response(generate_error_vxml(technical_difficulties), 200)],
                 Response(generate_error_vxml(technical_difficulties), 200),
                 Response("response_vxml", 200))
    /\ UNCHANGED <<now, session_timeout, ai_service>>

handle_user_input_resumed(t) ==
    /\ At(t, "handle_user_input", "await_ai")
    /\ Runs(t)
    /\ \E ai_response \in rasa_request_results(tasks[t].call_id) :
            TurnResume(t, ai_response, Response("response_vxml", 200))
    /\ UNCHANGED <<now, session_timeout, ai_service>>

InitTurn ==
    /\ sessions = [c \in {"c1"} |-> CallSession("c1", "n1", 0)]
    /\ ended = {}
    /\ now = 0
    /\ session_timeout = Timeout
    /\ ret = NoCall
    /\ ai_service \in AIServices
    /\ tasks = <<>>

NextTurn ==
    \/ \E h \in TurnHandlers, c \in CallIds, u \in TurnUtterances : Deliver(h, c, u)
    \/ \E t \in TaskIds : twilio_gather_input(t)
    \/ \E t \in TaskIds : twilio_gather_input_resumed(t)
    \/ \E t \in TaskIds : handle_user_input(t)
    \/ \E t \in TaskIds : handle_user_input_resumed(t)
    \/ Tick

SpecTurn == InitTurn /\ [][NextTurn]_vars

(* C13: in the interactions of a stored session every user turn is         *)
(* followed at once by the reply that the handler of that turn got for it; *)
(* only the last turn may still lack its reply, while its handler waits    *)
(* for the service.                                                        *)
C13_ReplyFollowsUserTurn ==
    \A c \in Stored :
        LET turns == sessions[c].interactions
        IN  \A i \in 1..Len(turns) : turns[i].speaker = "user" =>
                IF i < Len(turns)
                THEN /\ turns[i + 1].speaker = "ai"
                     /\ \E t \in DOMAIN tasks :
                            /\ tasks[t].call_id = c
                            /\ tasks[t].arg = turns[i].message
                            /\ tasks[t].ai_response /= None
                            /\ tasks[t].ai_response[1].message = turns[i + 1].message
                ELSE \E t \in DOMAIN tasks :
                        /\ tasks[t].call_id = c
                        /\ tasks[t].arg = turns[i].message
                        /\ tasks[t].pc = "await_ai"

(* A handler that looks its session up finds none: the call_id is not in   *)
(* the dict, or the stored session is expired.                             *)
SessionGone(t) ==
    \/ tasks[t].call_id \notin Stored
    \/ Expired(tasks[t].call_id)

NothingRecorded ==
    /\ DOMAIN sessions' \subseteq Stored
    /\ \A c \in DOMAIN sessions' : sessions'[c].interactions = sessions[c].interactions

(* C22: handle_user_input for a call_id whose session is missing or        *)
(* expired answers with status 404, stores no new session and adds no      *)
(* interaction to any session.                                             *)
C22_Step ==
    \A t \in DOMAIN tasks :
        (/\ tasks[t].handler = "handle_user_input"
         /\ tasks[t].pc = "accepted"
         /\ tasks'[t].pc = "done"
         /\ SessionGone(t))
        => /\ tasks'[t].returned.status_code = 404
           /\ NothingRecorded

C22_UserInputWithoutSessionIs404 == [][C22_Step]_vars

(* the message that an error document speaks first *)
Spoken(response) ==
    IF response.content.document = "error_vxml"
    THEN response.content.prompt[1]
    ELSE response.content.say[1]

SessionHandlers == {"twilio_gather_input", "twilio_action", "handle_user_input"}

(* C23: twilio_gather_input, twilio_action and handle_user_input, for a    *)
(* call_id whose session is missing or expired, call neither the policy    *)
(* engine nor a transaction processor, add no interaction, and answer with *)
(* the document that says "Session expired", not with a server error.      *)
C23_Step ==
    \A t \in DOMAIN tasks : tasks[t].handler \in SessionHandlers =>
        /\ (tasks[t].pc = "accepted" /\ tasks'[t].pc /= "accepted" /\ SessionGone(t))
            => /\ NothingRecorded
               /\ tasks'[t].ai_response = None
               /\ tasks'[t].result = None
               /\ tasks'[t].pc = "done" =>
                    /\ tasks'[t].returned.status_code < 500
                    /\ Spoken(tasks'[t].returned) = "Session expired"
        /\ (tasks[t].pc /= "done" /\ tasks'[t].pc = "done" /\ tasks[t].expired)
            => /\ tasks'[t].returned.status_code < 500
               /\ Spoken(tasks'[t].returned) = "Session expired"

C23_SessionGoneAnswersSessionExpired == [][C23_Step]_vars

----------------------------------------------------------------------------
(* The policy engine applied to the stored session, as the turn handlers   *)
(* and test_flows.py apply it: session_context is the object in the dict,  *)
(* so what _mock_ai_response writes into booking_data is written into the  *)
(* stored session.                                                         *)

process_input(call_id, user_input, session_context) ==
    mock_ai_response(user_input, session_context)

SayBook == <<"B", "o", "o", "k">>

SayCheckTicket == <<"c", "h", "e", "c", "k", " ", "t", "i", "c", "k", "e", "t">>

SayStatusCancel ==
    <<"s", "t", "a", "t", "u", "s", " ", "C", "a", "n", "c", "e", "l">>

SayCancel == <<"c", "a", "n", "c", "e", "l">>

SayInternationalDomestic ==
    <<"i", "n", "t", "e", "r", "n", "a", "t", "i", "o", "n", "a", "l", " ", "d", "o", "m", "e", "s", "t", "i", "c">>

SayAgentInternational ==
    <<"A", "g", "e", "n", "t", " ", "i", "n", "t", "e", "r", "n", "a", "t", "i", "o", "n", "a", "l">>

SayHuman == <<"h", "u", "m", "a", "n">>

SayDelhi == <<"D", "e", "l", "h", "i">>

SayPune == <<"P", "u", "n", "e">>

(* the phrases that the prompt of lines 142 to 145 names *)
SayBookAFlight ==
    <<"b", "o", "o", "k", " ", "a", " ", "f", "l", "i", "g", "h", "t">>

SayCheckFlightStatus ==
    <<"c", "h", "e", "c", "k", " ", "f", "l", "i", "g", "h", "t", " ", "s", "t", "a", "t", "u", "s">>

SayCancelBooking ==
    <<"c", "a", "n", "c", "e", "l", " ", "b", "o", "o", "k", "i", "n", "g">>

FallbackPhrases ==
    [book_flight |-> SayBookAFlight,
     check_status |-> SayCheckFlightStatus,
     cancel_booking |-> SayCancelBooking]

Utterances ==
    {SayBook, SayCheckTicket, SayStatusCancel, SayCancel, SayInternationalDomestic,
     SayAgentInternational, SayHuman, SayDelhi, SayPune,
     SayBookAFlight, SayCheckFlightStatus, SayCancelBooking}

Goa == <<"G", "o", "a">>

SlotFields == <<"origin", "destination", "date", "passenger_name", "contact">>

BookingKeys == {SlotFields[i] : i \in DOMAIN SlotFields} \cup {"booking_type"}

BookingStates == {[k \in K |-> Goa] : K \in SUBSET BookingKeys}

PolicyIntents == {None, Some("book_flight"), Some("check_status")}

PolicySessions ==
    {[CallSession("c1", "n1", 0) EXCEPT !.current_intent = i, !.booking_data = b] :
        i \in PolicyIntents, b \in {None} \cup {Some(d) : d \in BookingStates}}

ProcessInput(call_id, user_input) ==
    /\ ai_service = "mock"
    /\ call_id \in DOMAIN sessions
    /\ LET r == process_input(call_id, user_input, sessions[call_id])
       IN  /\ sessions' = [sessions EXCEPT ![call_id] = r.session_context]
           /\ ret' = [op |-> "process_input", call_id |-> call_id,
                      args |-> <<user_input>>,
                      value |-> [raised |-> r.raised, value |-> r.value]]
    /\ ended' = {}
    /\ UNCHANGED <<now, session_timeout, ai_service, tasks>>

InitPolicy ==
    /\ sessions \in {[c \in {"c1"} |-> session] : session \in PolicySessions}
    /\ ended = {}
    /\ now = 0
    /\ session_timeout = Timeout
    /\ ret = NoCall
    /\ ai_service = "mock"
    /\ tasks = <<>>

NextPolicy == \E c \in CallIds, u \in Utterances : ProcessInput(c, u)

SpecPolicy == InitPolicy /\ [][NextPolicy]_vars

(* C14: whatever the session holds, an utterance that contains a keyword   *)
(* gets the intent and the action of the first group, in the order         *)
(* booking, status, cancellation, domestic, international, agent, that has *)
(* a keyword contained in the lower-cased utterance, and leaves the        *)
(* session as it was.                                                      *)
KeywordGroups ==
    <<[words |-> booking_words, intent |-> "book_flight",
       action |-> "collect_booking_type"],
      [words |-> status_words, intent |-> "check_status",
       action |-> "collect_flight_id"],
      [words |-> cancel_words, intent |-> "cancel_booking",
       action |-> "collect_booking_id"],
      [words |-> domestic_words, intent |-> "domestic_flight",
       action |-> "collect_origin"],
      [words |-> international_words, intent |-> "international_flight",
       action |-> "collect_origin"],
      [words |-> agent_words, intent |-> "speak_to_agent",
       action |-> "transfer_agent"]>>

GroupsFound(str) ==
    {g \in DOMAIN KeywordGroups : any_word_in(KeywordGroups[g].words, str)}

HasKeyword(user_input) == GroupsFound(lower(user_input)) /= {}

FirstGroup(user_input) ==
    KeywordGroups[CHOOSE g \in GroupsFound(lower(user_input)) :
                    \A h \in GroupsFound(lower(user_input)) : g <= h]

C14_FirstKeywordGroupWins ==
    \A c \in Stored : \A u \in Utterances : HasKeyword(u) =>
        LET r == mock_ai_response(u, sessions[c])
        IN  /\ r.raised = None
            /\ r.value[1].intent = FirstGroup(u).intent
            /\ r.value[1].action = Some(FirstGroup(u).action)
            /\ r.session_context = sessions[c]

C14_Witness ==
    /\ ret.op = "process_input"
    /\ ret.args[1] = SayStatusCancel
    /\ Cardinality(GroupsFound(lower(ret.args[1]))) = 2
    /\ sessions[ret.call_id].current_intent = Some("book_flight")
    /\ sessions[ret.call_id].booking_data /= None
    /\ DOMAIN sessions[ret.call_id].booking_data[1] = {"origin", "destination"}
    /\ ret.value.raised = None
    /\ ret.value.value[1].intent = "check_status"
    /\ ret.value.value[1].action = Some("collect_flight_id")

(* The booking flow as the claims state it. *)

InBookingFlow(session) ==
    /\ session.current_intent = Some("book_flight")
    /\ session.booking_data /= None

Missing(booking) == {i \in DOMAIN SlotFields : SlotFields[i] \notin DOMAIN booking}

FirstMissing(booking) ==
    SlotFields[CHOOSE i \in Missing(booking) : \A j \in Missing(booking) : i <= j]

SlotPrompt ==
    [origin |-> <<"Great! Where would you like to fly from?">>,
     destination |-> <<"Great! And where would you like to fly to?">>,
     date |-> <<"When would you like to travel? Please provide the date.">>,
     passenger_name |-> <<"May I have your full name for the booking?">>,
     contact |-> <<"And your contact number?">>]

(* C15: in the booking flow with booking_data holding origin alone, an     *)
(* utterance without a keyword gets the reply that asks for the travel     *)
(* date, and booking_data then holds the utterance as destination.         *)
C15_DestinationThenAskDate ==
    \A c \in Stored : \A u \in Utterances :
        (/\ ~HasKeyword(u)
         /\ InBookingFlow(sessions[c])
         /\ DOMAIN sessions[c].booking_data[1] = {"origin"})
        => LET r == mock_ai_response(u, sessions[c])
           IN  /\ r.session_context.booking_data[1]["destination"] = u
               /\ r.raised = None
               /\ r.value[1].message = SlotPrompt["date"]

(* C16: in the booking flow, once store_booking_data has been given an     *)
(* empty dict and booking_data is the empty dict, an utterance without a   *)
(* keyword is stored as origin and the reply asks for the destination.     *)
C16_EmptyBookingDataTakesOrigin ==
    \A c \in Stored : \A u \in Utterances :
        LET session == store_booking_data(Current, c, EmptyDict).st.sessions[c]
        IN  (/\ ~HasKeyword(u)
             /\ InBookingFlow(session)
             /\ DOMAIN session.booking_data[1] = {})
            => LET r == mock_ai_response(u, session)
               IN  /\ r.session_context.booking_data /= None
                   /\ DOMAIN r.session_context.booking_data[1] = {"origin"}
                   /\ r.session_context.booking_data[1]["origin"] = u
                   /\ r.raised = None
                   /\ r.value[1].message = SlotPrompt["destination"]

(* C17: in the booking flow with a slot still missing, an utterance        *)
(* without a keyword is written into the first missing slot and into       *)
(* nothing else, and the reply asks for the first slot that is missing     *)
(* after the write (or confirms when none is).                             *)
C17_OneSlotWrittenNextSlotAsked ==
    \A c \in Stored : \A u \in Utterances :
        (/\ ~HasKeyword(u)
         /\ InBookingFlow(sessions[c])
         /\ Missing(sessions[c].booking_data[1]) /= {})
        => LET before == sessions[c].booking_data[1]
               r == mock_ai_response(u, sessions[c])
               after == r.session_context.booking_data[1]
           IN  /\ DOMAIN after = DOMAIN before \cup {FirstMissing(before)}
               /\ after[FirstMissing(before)] = u
               /\ \A k \in DOMAIN before : after[k] = before[k]
               /\ r.raised = None
               /\ IF Missing(after) = {}
                  THEN r.value[1].action = Some("confirm_booking")
                  ELSE r.value[1].message = SlotPrompt[FirstMissing(after)]

(* C18: a turn of the booking flow with an utterance without a keyword     *)
(* fills one more slot while one is missing, so that five turns fill all;  *)
(* its reply asks for no slot that is filled, and is the confirmation when *)
(* the turn fills the last slot.  With all slots filled the turn changes   *)
(* nothing and the reply is the didn't-understand fallback.                *)
C18_Step ==
    \A c \in Stored :
        (/\ ret'.op = "process_input"
         /\ ret'.call_id = c
         /\ ~HasKeyword(ret'.args[1])
         /\ InBookingFlow(sessions[c]))
        => LET before == sessions[c].booking_data[1]
               after == sessions'[c].booking_data[1]
           IN  IF Missing(before) /= {}
               THEN /\ Cardinality(Missing(after)) = Cardinality(Missing(before)) - 1
                    /\ ret'.value.raised = None
                    /\ \A k \in DOMAIN after \cap DOMAIN SlotPrompt :
                            ret'.value.value[1].message /= SlotPrompt[k]
                    /\ Missing(after) = {} =>
                            ret'.value.value[1].action = Some("confirm_booking")
               ELSE /\ after = before
                    /\ ret'.value.raised = None
                    /\ ret'.value.value[1].intent = "unknown"
                    /\ ret'.value.value[1].action = None
                    /\ ret'.value.value[1].message =
                           <<"I didn't quite understand. Could you rephrase that?">>

C18_SlotsFillWithinFiveTurns == [][C18_Step]_vars

(* C19: for every utterance and every session the policy engine returns a  *)
(* dict with message, intent, action, confidence and parameters, and       *)
(* raises nothing.                                                         *)
C19_AlwaysReturnsResult ==
    \A c \in Stored : \A u \in Utterances :
        LET r == mock_ai_response(u, sessions[c])
        IN  /\ r.raised = None
            /\ r.value /= None
            /\ {"message", "intent", "action", "confidence", "parameters"}
                   \subseteq DOMAIN r.value[1]

(* C20: the policy engine leaves the session it is given as it was.        *)
C20_SessionUnchanged ==
    \A c \in Stored : \A u \in Utterances :
        mock_ai_response(u, sessions[c]).session_context = sessions[c]

(* C21: an utterance with a keyword gets the confidence 0.85, and a turn   *)
(* in which the policy engine writes a slot of booking_data returns a      *)
(* result whose confidence is another value.                               *)
C21_SlotFillingConfidenceDiffers ==
    \A c \in Stored : \A u \in Utterances :
        LET r == mock_ai_response(u, sessions[c])
        IN  IF HasKeyword(u)
            THEN /\ r.raised = None
                 /\ r.value[1].confidence = mock_confidence
            ELSE r.session_context.booking_data /= sessions[c].booking_data =>
                    /\ r.raised = None
                    /\ r.value[1].confidence /= mock_confidence

----------------------------------------------------------------------------
(* The handlers of a completed transaction: POST /ivr/transaction, which   *)
(* is given the kind of transaction and its data, and POST /twilio/action, *)
(* which takes both from the session.                                      *)

SlotFilled == [k \in {SlotFields[i] : i \in DOMAIN SlotFields} |-> Goa]

Complete ==
    [origin |-> Goa, destination |-> SayDelhi, travel_date |-> Goa,
     passenger_name |-> Goa, passenger_contact |-> Goa, booking_type |-> Goa]

FlightIds == {"AI1", "AI2", "AI3"}

TransactionRequests ==
    {[transaction_type |-> "flight_booking", data |-> d] :
        d \in {None, Some(EmptyDict), Some(SlotFilled), Some(Complete)}}
    \cup {[transaction_type |-> "status_check", data |-> d] :
        d \in {None, Some(EmptyDict)} \cup {Some([flight_id |-> f]) : f \in FlightIds}}
    \cup {[transaction_type |-> "cancellation", data |-> d] :
        d \in {None, Some(EmptyDict), Some([booking_id |-> "BK1"])}}
    \cup {[transaction_type |-> "refund", data |-> Some(EmptyDict)]}

TransactionDeliveries ==
    {<<"handle_transaction", Some(q)>> : q \in TransactionRequests}
    \cup {<<"twilio_action", None>>}

handle_transaction(t) ==
    /\ At(t, "handle_transaction", "accepted")
    /\ Runs(t)
    /\ LET call_id == tasks[t].call_id
           transaction_type == tasks[t].arg[1].transaction_type
           transaction_data == tasks[t].arg[1].data
           result ==
               CASE transaction_type = "flight_booking" ->
                        process_flight_booking(call_id, transaction_data)
                 [] transaction_type = "status_check" ->
                        process_status_check(call_id, transaction_data)
                 [] transaction_type = "cancellation" ->
                        process_cancellation(call_id, transaction_data)
                 [] OTHER -> Raised("HTTPException")
       IN  IF result.raised /= None
           THEN tasks' = [tasks EXCEPT ![t] =
                            Finish(@, None, result.raised,
                                   Response([detail |-> result.raised[1]], 500))]
           ELSE tasks' = [tasks EXCEPT ![t] =
                            Finish([@ EXCEPT !.result = result.value], None, None,
                                   Response(generate_confirmation_vxml(call_id,
                                                                       result.value[1]),
                                            200))]
    /\ UNCHANGED <<sessions, ended, now, session_timeout, ret, ai_service>>

TransactionSessions ==
    {CallSession("c1", "n1", 0)}
    \cup {[CallSession("c1", "n1", 0) EXCEPT !.current_intent = Some("book_flight"),
                                             !.booking_data = Some(b)] :
            b \in {SlotFilled, Complete}}

InitTransaction ==
    /\ sessions \in {[c \in {"c1"} |-> session] : session \in TransactionSessions}
    /\ ended = {}
    /\ now = 0
    /\ session_timeout = Timeout
    /\ ret = NoCall
    /\ ai_service = "mock"
    /\ tasks = <<>>

NextTransaction ==
    \/ \E q \in TransactionDeliveries, c \in CallIds : Deliver(q[1], c, q[2])
    \/ \E t \in TaskIds : handle_transaction(t)
    \/ \E t \in TaskIds : twilio_action(t)
    \/ \E t \in TaskIds : end_session_lookup(t)
    \/ \E t \in TaskIds : end_session_write(t)
    \/ \E t \in TaskIds : end_session_del(t)

SpecTransaction == InitTransaction /\ [][NextTransaction]_vars

(* the transactions that have run to their end *)
Transactions(kind) ==
    {t \in DOMAIN tasks :
        /\ tasks[t].handler = "handle_transaction"
        /\ tasks[t].pc = "done"
        /\ tasks[t].arg[1].transaction_type = kind}

(* the twilio_action tasks that found their session and finalized its      *)
(* booking                                                                 *)
Finalized ==
    {t \in DOMAIN tasks :
        /\ tasks[t].handler = "twilio_action"
        /\ tasks[t].pc = "done"
        /\ ~tasks[t].expired
        /\ tasks[t].session /= None
        /\ tasks[t].session[1].current_intent = Some("book_flight")
        /\ tasks[t].session[1].booking_data /= None
        /\ DOMAIN tasks[t].session[1].booking_data[1] /= {}}

BookingData(t) ==
    IF tasks[t].handler = "handle_transaction"
    THEN tasks[t].arg[1].data
    ELSE tasks[t].session[1].booking_data

(* C24: process_flight_booking, given no data or data without one of the   *)
(* fields that FlightBooking requires, raises nothing and returns a dict   *)
(* with success False and a message; so it does for the booking_data that  *)
(* slot filling leaves in the session.                                     *)
C24_MissingFieldIsReportedNotRaised ==
    \A t \in Transactions("flight_booking") \cup Finalized :
        (\/ BookingData(t) = None
         \/ ~(FlightBookingRequired \subseteq DOMAIN BookingData(t)[1]))
        => /\ tasks[t].raised = None
           /\ tasks[t].result /= None
           /\ tasks[t].result[1].success = FALSE
           /\ "message" \in DOMAIN tasks[t].result[1]

(* C25: once twilio_action has handled the transaction of a session it     *)
(* found, or handle_transaction has run a processor, whether the processor *)
(* returned or raised, the call_id is not in the dict.                     *)
C25_CompletedTransactionEndsSession ==
    \A t \in DOMAIN tasks :
        (/\ tasks[t].pc = "done"
         /\ \/ /\ tasks[t].handler = "twilio_action"
               /\ tasks[t].session /= None
            \/ /\ tasks[t].handler = "handle_transaction"
               /\ tasks[t].arg[1].transaction_type
                    \in {"flight_booking", "status_check", "cancellation"})
        => tasks[t].call_id \notin Stored

(* C28: process_cancellation reports success True with the booking id for  *)
(* data that holds one, and does not report success for data that holds    *)
(* none.                                                                   *)
C28_CancellationNeedsBookingId ==
    \A t \in Transactions("cancellation") : tasks[t].arg[1].data /= None =>
        LET booking_id == get(tasks[t].arg[1].data[1], "booking_id")
        IN  /\ tasks[t].raised = None
            /\ tasks[t].result /= None
            /\ IF booking_id /= None
               THEN /\ tasks[t].result[1].success = TRUE
                    /\ tasks[t].result[1].booking_id = booking_id
               ELSE tasks[t].result[1].success = FALSE

(* C29: process_status_check, given a dict, returns success True with the  *)
(* flight id and the status, origin and destination the registry holds for *)
(* it when the id is in the registry, and success False with the message   *)
(* "Flight not found" when it is not or when the dict holds no id.         *)
C29_StatusCheckFollowsRegistry ==
    \A t \in Transactions("status_check") : tasks[t].arg[1].data /= None =>
        LET flight_id == get(tasks[t].arg[1].data[1], "flight_id")
        IN  /\ tasks[t].raised = None
            /\ tasks[t].result /= None
            /\ IF flight_id /= None /\ flight_id[1] \in DOMAIN flights
               THEN /\ DOMAIN tasks[t].result[1] =
                            {"success", "flight_id"} \cup DOMAIN flights[flight_id[1]]
                    /\ tasks[t].result[1]["success"] = TRUE
                    /\ tasks[t].result[1]["flight_id"] = flight_id[1]
                    /\ \A k \in DOMAIN flights[flight_id[1]] :
                            tasks[t].result[1][k] = flights[flight_id[1]][k]
               ELSE /\ DOMAIN tasks[t].result[1] = {"success", "message"}
                    /\ tasks[t].result[1]["success"] = FALSE
                    /\ tasks[t].result[1]["message"] = "Flight not found"

C29_Witness ==
    \E t, u \in Transactions("status_check") :
        /\ tasks[t].arg[1].data = Some([flight_id |-> "AI2"])
        /\ tasks[t].result /= None
        /\ tasks[t].result[1]["success"] = TRUE
        /\ tasks[t].result[1]["status"] = "Delayed"
        /\ tasks[t].result[1]["origin"] = "Chennai"
        /\ tasks[u].arg[1].data = Some(EmptyDict)
        /\ tasks[u].result /= None
        /\ tasks[u].result[1]["success"] = FALSE

----------------------------------------------------------------------------
(* Turn webhooks delivered one after another, as a caller's turns are and  *)
(* as test_flows.py posts them: the next request is accepted once every    *)
(* earlier one has been answered.  The AIConnector is the one main.py      *)
(* constructs, with the mock service.                                      *)

DeliverNext(handler, call_id, arg) ==
    /\ \A t \in DOMAIN tasks : tasks[t].pc = "done"
    /\ Deliver(handler, call_id, arg)

NextSequence ==
    \/ \E h \in TurnHandlers, c \in CallIds, u \in TurnUtterances : DeliverNext(h, c, u)
    \/ \E t \in TaskIds : twilio_gather_input(t)
    \/ \E t \in TaskIds : handle_user_input(t)
    \/ Tick

SpecSequence == InitEnd /\ [][NextSequence]_vars

(* the turns of call c that found its session *)
Handled(c) ==
    {t \in DOMAIN tasks :
        /\ tasks[t].call_id = c
        /\ tasks[t].pc = "done"
        /\ tasks[t].session /= None}

(* C27: of turn webhooks delivered one after another, each one that finds  *)
(* the session of its call appends to its interactions the utterance as    *)
(* the user's and then the reply as the system's, and nothing else; a      *)
(* stored session holds two interactions for each turn handled.            *)
C27_State ==
    \A c \in Stored : Len(sessions[c].interactions) = 2 * Cardinality(Handled(c))

C27_Step ==
    \A t \in DOMAIN tasks :
        (/\ tasks[t].handler \in TurnHandlers
         /\ tasks[t].pc = "accepted"
         /\ tasks'[t].pc = "done"
         /\ ~SessionGone(t))
        => /\ tasks'[t].ai_response /= None
           /\ tasks[t].call_id \in DOMAIN sessions'
           /\ sessions'[tasks[t].call_id].interactions =
                 sessions[tasks[t].call_id].interactions
                 \o <<Interaction(now, "user", tasks[t].arg, None),
                      Interaction(now, "ai", tasks'[t].ai_response[1].message, None)>>

C27_EachTurnAppendsTwo == []C27_State /\ [][C27_Step]_vars

C27_Witness ==
    /\ Len(tasks) = 2
    /\ Handled("c1") = {1, 2}
    /\ tasks[1].handler /= tasks[2].handler
    /\ HasKeyword(tasks[1].arg)
    /\ ~HasKeyword(tasks[2].arg)
    /\ "c1" \in Stored
    /\ Len(sessions["c1"].interactions) = 4
    /\ sessions["c1"].interactions[3].timestamp > sessions["c1"].interactions[2].timestamp

----------------------------------------------------------------------------
(* store_booking_data called again and again for one session, with dicts   *)
(* that share keys and dicts that do not.                                  *)

BookingMerges ==
    {[origin |-> "Mumbai", destination |-> "Delhi"],
     [origin |-> "Pune"],
     [date |-> "2025-11-15"],
     EmptyDict}

MergeBookingData(call_id, booking_data) ==
    /\ Call("store_booking_data", call_id, <<booking_data>>,
            store_booking_data(Current, call_id, booking_data))
    /\ UNCHANGED <<now, session_timeout, ai_service, tasks>>

NextBooking ==
    \/ \E i \in Incoming : CreateSession(i[1], i[2])
    \/ \E c \in CallIds, b \in BookingMerges : MergeBookingData(c, b)
    \/ Tick

SpecBooking == Init /\ [][NextBooking]_vars

(* C26: a call of store_booking_data that returns True leaves in           *)
(* booking_data the dict it found, the empty dict where it found None,     *)
(* updated with the dict it was given: every key given has the value       *)
(* given, every other key that was there keeps its value, there is no      *)
(* other key, and nothing else of the session changes.                     *)
C26_Step ==
    (ret'.op = "store_booking_data" /\ ret'.value = TRUE) =>
        LET c == ret'.call_id
            given == ret'.args[1]
        IN  /\ c \in Stored
            /\ c \in DOMAIN sessions'
            /\ sessions'[c].booking_data /= None
            /\ LET found == IF sessions[c].booking_data = None
                            THEN EmptyDict
                            ELSE sessions[c].booking_data[1]
                   left == sessions'[c].booking_data[1]
               IN  /\ DOMAIN left = DOMAIN found \cup DOMAIN given
                   /\ \A k \in DOMAIN given : left[k] = given[k]
                   /\ \A k \in DOMAIN found \ DOMAIN given : left[k] = found[k]
                   /\ sessions'[c] = [sessions[c] EXCEPT !.booking_data = Some(left)]

C26_StoreBookingDataMerges == [][C26_Step]_vars

C26_Witness ==
    /\ ret.op = "store_booking_data"
    /\ ret.value = TRUE
    /\ ret.args = <<[origin |-> "Pune"]>>
    /\ ret.call_id \in Stored
    /\ sessions[ret.call_id].booking_data =
            Some([origin |-> "Pune", destination |-> "Delhi", date |-> "2025-11-15"])

----------------------------------------------------------------------------
(* The two queries that go through get_session, on sessions that are       *)
(* created, given interactions, ended, and left idle.                      *)

HistoryLastN == {None, Some(0), Some(1), Some(3)}

NextQuery ==
    \/ \E i \in Incoming : CreateSession(i[1], i[2])
    \/ \E c \in CallIds, s \in Speakers, m \in Messages, k \in InputTypes :
            AddInteraction(c, s, m, k)
    \/ \E c \in CallIds : EndSession(c, end_session_default_status)
    \/ \E c \in CallIds, n \in HistoryLastN : GetConversationHistory(c, n)
    \/ \E c \in CallIds : GetSessionDuration(c)
    \/ Tick

SpecQuery == Init /\ [][NextQuery]_vars

(* C31: get_session_duration of a stored session that is not expired is    *)
(* now - start_time, which is not negative, and leaves the store as it     *)
(* was; of a call_id that is not stored (never created, or ended) it is    *)
(* None; of an expired session it is None, and the call ends the session.  *)
C31_DurationOrNotFound ==
    \A c \in CallIds :
        LET r == get_session_duration(Current, c)
        IN  IF c \in Stored /\ ~Expired(c)
            THEN /\ r.value = Some((IF sessions[c].end_time /= None
                                    THEN sessions[c].end_time[1]
                                    ELSE now) - sessions[c].start_time)
                 /\ r.value = Some(now - sessions[c].start_time)
                 /\ r.value[1] >= 0
                 /\ r.st = Current
            ELSE /\ r.value = None
                 /\ c \notin DOMAIN r.st.sessions
                 /\ \A d \in Stored \ {c} :
                        d \in DOMAIN r.st.sessions /\ r.st.sessions[d] = sessions[d]

C31_Witness ==
    /\ ret.op = "get_session_duration"
    /\ ret.call_id \in Stored
    /\ ret.value /= None
    /\ ret.value[1] >= 1
    /\ ret.value[1] = now - sessions[ret.call_id].start_time
    /\ Len(sessions[ret.call_id].interactions) >= 1

(* C32: get_conversation_history with last_n = n, for every n >= 0,        *)
(* returns the last n interactions of the session in their order, all of   *)
(* them when n is greater than their number; with last_n None it returns   *)
(* them all; for a missing or expired session it returns the empty list.   *)
C32_LastNOfHistory ==
    \A c \in CallIds : \A last_n \in HistoryLastN :
        LET r == get_conversation_history(Current, c, last_n)
        IN  IF c \in Stored /\ ~Expired(c)
            THEN LET interactions == sessions[c].interactions
                     len == Len(interactions)
                     n == IF last_n = None \/ last_n[1] > len THEN len ELSE last_n[1]
                 IN  /\ Len(r.value) = n
                     /\ \A i \in 1..n : r.value[i] = interactions[len - n + i]
            ELSE r.value = <<>>

----------------------------------------------------------------------------
(* C34: the session that create_session returns is the one that a          *)
(* get_session for the same call_id, called at the same time, returns,     *)
(* whatever the dict held before.                                          *)
C34_CreatedSessionIsLive ==
    \A i \in Incoming :
        LET r == create_session(Current, i[1], i[2])
            g == get_session(r.st, i[1])
        IN  g.value = Some(r.value)

(* C38: the time of the last activity of a stored session changes only in  *)
(* a call of add_interaction for it that returns True: update_session,     *)
(* set_intent, store_booking_data and get_session leave it as it was; and  *)
(* a session is not found once more than session_timeout has passed since  *)
(* that time.                                                              *)
C38_OnlyInteractionsMoveIdleClock ==
    \A c \in Stored :
        LET last == LastActivityTime(sessions[c])
            Same(r) == c \in DOMAIN r.st.sessions
                           => LastActivityTime(r.st.sessions[c]) = last
        IN  /\ now - last > session_timeout => get_session(Current, c).value = None
            /\ Same(get_session(Current, c))
            /\ \A u \in ContextUpdates : Same(update_session(Current, c, u))
            /\ \A i \in Intents : Same(set_intent(Current, c, i))
            /\ \A d \in BookingUpdates : Same(store_booking_data(Current, c, d))
            /\ \A sp \in Speakers, m \in Messages, k \in InputTypes :
                   LET r == add_interaction(Current, c, sp, m, k)
                   IN  IF r.value
                       THEN LastActivityTime(r.st.sessions[c]) = now
                       ELSE Same(r)

C38_Witness ==
    /\ ret.op \in {"update_session", "set_intent", "store_booking_data"}
    /\ ret.value = TRUE
    /\ ret.call_id \in Stored
    /\ now > LastActivityTime(sessions[ret.call_id])
    /\ now - LastActivityTime(sessions[ret.call_id]) = session_timeout

(* C40: get_active_session_count is the number of call_ids for which       *)
(* get_session, called at the same time, returns a session, and            *)
(* get_all_sessions lists no other call_id.                                *)
C40_CountedSessionsAreFound ==
    LET found == {c \in CallIds : get_session(Current, c).value /= None}
    IN  /\ get_active_session_count(Current) = Cardinality(found)
        /\ Listed(Current) \subseteq found

----------------------------------------------------------------------------
(* The helpers the OpenAI adapter derives intent and action with           *)
(* (_openai_request, after the backend has answered).                      *)

extract_intent(user_input) ==
    LET user_lower == lower(user_input)
    IN  IF contains(user_lower, <<"b", "o", "o", "k">>)
        THEN "book_flight"
        ELSE IF \/ contains(user_lower, <<"s", "t", "a", "t", "u", "s">>)
                \/ contains(user_lower, <<"c", "h", "e", "c", "k">>)
        THEN "check_status"
        ELSE IF contains(user_lower, <<"c", "a", "n", "c", "e", "l">>)
        THEN "cancel_booking"
        ELSE "general_inquiry"

action_map ==
    [book_flight |-> "collect_booking_type",
     check_status |-> "collect_flight_id",
     cancel_booking |-> "collect_booking_id",
     speak_to_agent |-> "transfer_agent"]

(* intent is Optional; action_map.get(intent) is None for a missing key *)
determine_action(intent) ==
    IF intent /= None /\ intent[1] /= ""
    THEN get(action_map, intent[1])
    ELSE None

ExtractIntent(call_id, user_input) ==
    /\ ai_service = "openai"
    /\ call_id \in DOMAIN sessions
    /\ LET intent == extract_intent(user_input)
           action == determine_action(Some(intent))
       IN  ret' = [op |-> "openai_request", call_id |-> call_id,
                   args |-> <<user_input>>,
                   value |-> [raised |-> None,
                              value |-> Some([intent |-> intent, action |-> action])]]
    /\ ended' = {}
    /\ UNCHANGED <<sessions, now, session_timeout, ai_service, tasks>>

InitAdapter ==
    /\ sessions \in {[c \in {"c1"} |-> session] : session \in PolicySessions}
    /\ ended = {}
    /\ now = 0
    /\ session_timeout = Timeout
    /\ ret = NoCall
    /\ ai_service \in {"mock", "openai"}
    /\ tasks = <<>>

NextAdapter ==
    \/ \E c \in CallIds, u \in Utterances : ProcessInput(c, u)
    \/ \E c \in CallIds, u \in Utterances : ExtractIntent(c, u)

SpecAdapter == InitAdapter /\ [][NextAdapter]_vars

(* C33: for an utterance that contains a keyword of the mock policy,       *)
(* _extract_intent returns the intent that the mock policy returns for it, *)
(* and for every intent that the mock policy returns _determine_action     *)
(* returns the action that the mock policy returns with it.                *)
C33_HelpersFollowRoutingTable ==
    /\ (ret.op = "openai_request" /\ keyword_branch(lower(ret.args[1])) /= None)
           => Some(ret.value.value[1].intent)
                  = keyword_branch(lower(ret.args[1]))[1].intent
    /\ (ret.op = "process_input" /\ ret.value.raised = None)
           => determine_action(Some(ret.value.value[1].intent))
                  = ret.value.value[1].action

(* C39: each phrase that the prompt for an utterance that was not          *)
(* understood names ('book a flight', 'check flight status', 'cancel       *)
(* booking') gets the intent it names: book_flight, check_status,          *)
(* cancel_booking.                                                         *)
C39_FallbackPhrasesAreRouted ==
    \A intent \in DOMAIN FallbackPhrases :
        (ret.op = "process_input" /\ ret.args[1] = FallbackPhrases[intent])
            => /\ ret.value.raised = None
               /\ ret.value.value[1].intent = intent

----------------------------------------------------------------------------
(* C35: once a turn handler has answered an utterance with the intent      *)
(* book_flight, the session of the call, while it is stored, has           *)
(* current_intent book_flight and a booking_data, so that the turns that   *)
(* follow are taken as answers to the booking prompts and lead to the      *)
(* reply with the action confirm_booking.                                  *)
C35_BookingTurnOpensBookingFlow ==
    \A t \in DOMAIN tasks :
        (/\ tasks[t].handler \in TurnHandlers
         /\ tasks[t].pc = "done"
         /\ tasks[t].ai_response /= None
         /\ tasks[t].ai_response[1].intent = "book_flight"
         /\ tasks[t].call_id \in Stored)
        => /\ sessions[tasks[t].call_id].current_intent = Some("book_flight")
           /\ sessions[tasks[t].call_id].booking_data /= None

----------------------------------------------------------------------------
(* A turn in flight while the call is ended and called again: turn         *)
(* webhooks, DELETE /session/{call_id} and incoming-call webhooks for one  *)
(* call_id, with the mock policy or a remote service.                      *)

MaxRequests == 3  \* requests the server accepts in one behaviour

RequestIds == 1..MaxRequests

ReplaceRequests ==
    {<<h, <<"B", "o", "o", "k">>>> : h \in TurnHandlers}
    \cup {<<"main_end_session", None>>}
    \cup {<<h, "n2">> : h \in IncomingHandlers}

Accept(handler, call_id, arg) ==
    /\ Len(tasks) < MaxRequests
    /\ tasks' = Append(tasks, Task(handler, call_id, arg))
    /\ UNCHANGED <<sessions, ended, now, session_timeout, ret, ai_service>>

NextReplace ==
    \/ \E q \in ReplaceRequests : Accept(q[1], "c1", q[2])
    \/ \E t \in RequestIds : twilio_gather_input(t)
    \/ \E t \in RequestIds : twilio_gather_input_resumed(t)
    \/ \E t \in RequestIds : handle_user_input(t)
    \/ \E t \in RequestIds : handle_user_input_resumed(t)
    \/ \E t \in RequestIds : main_end_session(t)
    \/ \E t \in RequestIds : end_session_lookup(t)
    \/ \E t \in RequestIds : end_session_write(t)
    \/ \E t \in RequestIds : end_session_del(t)
    \/ \E t \in RequestIds : twilio_incoming_call(t)
    \/ \E t \in RequestIds : handle_incoming_call(t)
    \/ Tick

SpecReplace == InitTurn /\ [][NextReplace]_vars

(* the handler went on to render the reply of the policy engine *)
NormalReply(t) ==
    /\ tasks[t].handler \in TurnHandlers
    /\ tasks[t].pc = "done"
    /\ tasks[t].ai_response /= None
    /\ tasks[t].raised = None

(* C36: a turn handler that has rendered a normal reply has appended the   *)
(* utterance and the reply to the interactions of the session: both calls  *)
(* of add_interaction returned True.                                       *)
C36_RenderedReplyWasRecorded ==
    \A t \in DOMAIN tasks :
        NormalReply(t) => /\ tasks[t].session /= None
                          /\ tasks[t].value = Some(TRUE)

(* C37: a turn handler that resumes from the AI service appends its reply  *)
(* only to the session that received the utterance: the session stored     *)
(* under the call_id is then the one the handler looked up, with the same  *)
(* start_time and with the interactions it had after the utterance.        *)
IsPrefix(s, t) == Len(s) <= Len(t) /\ SubSeq(t, 1, Len(s)) = s

C37_Step ==
    \A t \in DOMAIN tasks :
        (/\ tasks[t].handler \in TurnHandlers
         /\ tasks[t].pc = "await_ai"
         /\ tasks'[t].pc = "done"
         /\ tasks'[t].value = Some(TRUE))
        => /\ sessions[tasks[t].call_id].start_time = tasks[t].session[1].start_time
           /\ IsPrefix(tasks[t].session[1].interactions,
                       sessions[tasks[t].call_id].interactions)

C37_ReplyGoesToSameIncarnation == [][C37_Step]_vars

----------------------------------------------------------------------------
(* C30: a call of cleanup_expired_sessions removes from the dict exactly   *)
(* the sessions that were expired when it was called, ends each of them    *)
(* with status failed and end_time now, returns how many they were and     *)
(* leaves every other session as it was; in the state it leaves no stored  *)
(* session is expired.                                                     *)
C30_Step ==
    ret'.op = "cleanup_expired_sessions" =>
        LET expired_ids == {c \in Stored : Expired(c)}
        IN  /\ DOMAIN sessions' = Stored \ expired_ids
            /\ \A c \in Stored \ expired_ids : sessions'[c] = sessions[c]
            /\ ended' = {[sessions[c] EXCEPT !.status = "failed",
                                              !.end_time = Some(now)] : c \in expired_ids}
            /\ ret'.value = Cardinality(expired_ids)
            /\ \A c \in DOMAIN sessions' : ~is_session_expired(sessions'[c])

C30_CleanupEvictsExactlyExpired == [][C30_Step]_vars

C30_Witness ==
    /\ ret.op = "cleanup_expired_sessions"
    /\ ret.value >= 1
    /\ Cardinality(ended) = ret.value
    /\ \A session \in ended : session.status = "failed" /\ session.end_time = Some(now)
    /\ Stored /= {}

====
